---- MODULE Spec2Model ----
(***************************************************************************)
(* Caching and deduplication layer of prc.api: the ephemeral call          *)
(* memoizer (_ephemeral), the global-cache refresh (_refresh_server), the  *)
(* log-entry reconciliation (LogEntry.__init__) and the two cache          *)
(* containers (Cache, KeylessCache) they use.                              *)
(*                                                                         *)
(* asyncio is single threaded: a task runs from one await to the next      *)
(* without interruption, so every action below is one such run.            *)
(***************************************************************************)
EXTENDS Integers, Sequences, FiniteSets, TLC

(* ------------------------------ bounds -------------------------------- *)
NTasks == 2           \* concurrently running callers
MaxTime == 2          \* event-loop clock runs 0..MaxTime
MaxTs == 3            \* timestamps of constructed entries: 100 .. 100 * MaxTs
NPids == 2            \* distinct player ids of constructed entries
LogLen == 5           \* events in the log of the remote server
MaxPoll == 2          \* entries in one poll response
MaxTtl == 2           \* largest ephemeral_ttl a Server is constructed with
JoinCap == 3          \* max_size the join_logs sequence is configured with
NKeys == 3            \* distinct keys offered to the servers cache
NVals == 3            \* distinct values offered to the servers cache
MaxObjs == 3          \* Server objects get_server constructs

Tasks == 1..NTasks
Timestamps == {100 * i : i \in 1..MaxTs}
Pids == 1..NPids

(* --------------------------- configuration ---------------------------- *)
\* a servers cache one entry larger
ServersMaxSizeThree == 2 + 1

\* GlobalCache(servers=(2, 0)): (max_size, TTL)
ServersMaxSize == 2
ServersTtl == 0

\* the sort direction left at ascending
JoinLogsSortAscending == FALSE

\* join_logs=KeylessCache(*join_logs, sort=(lambda e: e.created_at, True))
JoinLogsSortReverse == TRUE

\* the attributes ServerCache.__init__ creates
ServerCacheAttrs == {"players", "vehicles", "join_logs"}

\* the id of the one Server object of the main specifications
ServerId == 1
ServerObj == 1

\* the server ids get_server is called with: one more than the servers
\* cache holds
ServerKeys == 1..(ServersMaxSize + 1)

(* ------------------------------ operations ---------------------------- *)
ServerOps == {"get_status", "get_queue"}
LogOps == {"get_joins", "get_kills", "get_commands", "get_mod_calls"}
Ops == ServerOps \cup LogOps

\* operations decorated with @_refresh_server
RefreshOps == Ops \ {"get_queue"}

VARIABLES
    now,            \* asyncio.get_event_loop().time()
    ephemeral_ttl,  \* Server._ephemeral_ttl
    module_ttl,     \* ServerModule._ephemeral_ttl of server.logs
    pc,             \* pc[t]: "idle", or the operation task t awaits
    since,          \* since[t]: clock value when task t sent its request
    slot,           \* slot[o]: <<>> or <<[val, at]>>, the <o>_cache attribute
    join_logs,      \* ServerCache.join_logs, in insertion order
    servers,        \* GlobalCache.servers, in insertion order
    invalid_keys,   \* Requests._invalid_keys
    ev,             \* the last thing that happened (observation)
    lastOk,         \* lastOk[o]: <<>> or <<[val, at]>>, last successful completion
    lastFail,       \* the operation whose fetch failed last, "" once it was
                    \* fetched again (observation)
    origOrder,      \* keys of servers by first insertion (observation)
    recency,        \* every key set on servers with its last value, by last
                    \* set (observation)
    servers_ttl,    \* the TTL GlobalCache.servers is configured with
    objs,           \* the Server objects PRC.get_server has constructed:
                    \* objs[h] = [key, flag] of the object with identity h
    pinned,         \* pinned[k]: the object the last get_server for key k
                    \* returned, 0 when none or once its entry was evicted
                    \* (observation)
    passed,         \* passed[t]: another invocation of the Server operation
                    \* task t called last completed after that call
                    \* (observation)
    owner           \* owner[i]: the server join_logs[i] was parsed for
                    \* (observation)

vars == <<now, ephemeral_ttl, module_ttl, pc, since, slot, join_logs, servers,
          invalid_keys, ev, lastOk, lastFail, origOrder, recency,
          servers_ttl, objs, pinned, passed, owner>>


(* --------------------- Cache[K, V] (prc.utility) ----------------------- *)
\* a cache is a sequence of entries [key, value, inserted_at], oldest first

\* an entry that is still live at the age of the TTL
CacheIsLiveInclusive(e, ttl, t) == ttl = 0 \/ t - e.inserted_at <= ttl

\* an entry is live when the cache has no TTL or its age is below the TTL
CacheIsLive(e, ttl, t) == ttl = 0 \/ t - e.inserted_at < ttl

CacheHas(c, k) == \E i \in 1..Len(c) : c[i].key = k

CacheWithout(c, k) == SelectSeq(c, LAMBDA e : e.key # k)

\* get(key): <<value>> when a live entry exists, <<>> otherwise
CacheGet(c, ttl, t, k) ==
    LET hit == SelectSeq(c, LAMBDA e : e.key = k /\ CacheIsLive(e, ttl, t))
    IN  IF hit = <<>> THEN <<>> ELSE <<hit[1].value>>

\* a set that replaces the value of an existing key where it stands
CacheSetInPlace(c, cap, t, k, v) ==
    LET fresh == [key |-> k, value |-> v, inserted_at |-> t]
    IN  IF CacheHas(c, k)
        THEN [i \in 1..Len(c) |->
                 IF c[i].key = k THEN [c[i] EXCEPT !.value = v] ELSE c[i]]
        ELSE IF Len(c) >= cap THEN Append(Tail(c), fresh)
        ELSE Append(c, fresh)

\* set(key, value): replace and refresh an existing key, else evict the
\* oldest entry when the cache is full, then append
CacheSet(c, cap, t, k, v) ==
    LET fresh == [key |-> k, value |-> v, inserted_at |-> t]
    IN  IF CacheHas(c, k) THEN Append(CacheWithout(c, k), fresh)
        ELSE IF Len(c) >= cap THEN Append(Tail(c), fresh)
        ELSE Append(c, fresh)

\* items(): the live entries in insertion order
CacheItems(c, ttl, t) == SelectSeq(c, LAMBDA e : CacheIsLive(e, ttl, t))

(* --------------------- KeylessCache[V] (prc.utility) ------------------- *)
\* a keyless cache is the sequence of its items, oldest first

\* add(item): evict the earliest inserted item once full, then append
KeylessAdd(s, cap, item) ==
    IF Len(s) >= cap THEN Append(Tail(s), item) ELSE Append(s, item)

\* x goes before y in the configured order (reverse = descending)
Before(x, y, reverse) ==
    IF reverse THEN x.created_at > y.created_at ELSE x.created_at < y.created_at

\* stable insertion: x lands behind every item that does not come after it
RECURSIVE InsertSorted(_, _, _)
InsertSorted(sorted, x, reverse) ==
    IF sorted = <<>> THEN <<x>>
    ELSE IF Before(x, Head(sorted), reverse) THEN <<x>> \o sorted
    ELSE <<Head(sorted)>> \o InsertSorted(Tail(sorted), x, reverse)

RECURSIVE SortBy(_, _)
SortBy(s, reverse) ==
    IF s = <<>> THEN <<>>
    ELSE InsertSorted(SortBy(SubSeq(s, 1, Len(s) - 1), reverse), s[Len(s)], reverse)

\* items(): sorted by the configured key when there is one
KeylessItems(s, hasSort, reverse) == IF hasSort THEN SortBy(s, reverse) ELSE s

(* --------------------------- log entries ------------------------------ *)
\* datetime.fromtimestamp: seconds since the epoch to local wall-clock time
UtcOffset == 3600
FromTimestamp(ts) == ts + UtcOffset

\* the payload of one log line: its Timestamp and the id of its subject
Payloads == [ts : Timestamps, pid : Pids]

\* the log of the remote server: player 1 joins at 100 and leaves at 200,
\* player 2 joins at 200, then leaves and joins again within each second
RemoteEvent(i) == [ts |-> 100 * (1 + i \div 2), pid |-> IF i < 3 THEN 1 ELSE 2]
RemoteLog == [i \in 1..LogLen |-> RemoteEvent(i)]

\* poll responses: the windows of at most MaxPoll consecutive events
Window(a, n) == [i \in 1..n |-> RemoteLog[a + i - 1]]
Responses ==
    UNION {{Window(a, n) : a \in 1..(LogLen - n + 1)} : n \in 0..MaxPoll}

\* items() of the join_logs sequence
JoinItems(logs) == KeylessItems(logs, TRUE, JoinLogsSortReverse)

\* the for/else scan of LogEntry.__init__ from position i: TRUE when it breaks
RECURSIVE ScanBreaks(_, _, _, _)
ScanBreaks(items, i, self, hasDedupe) ==
    IF i > Len(items) THEN FALSE
    ELSE IF items[i].created_at = self.created_at
         THEN IF hasDedupe
              THEN IF items[i].pid = self.pid THEN TRUE
                   ELSE ScanBreaks(items, i + 1, self, hasDedupe)
              ELSE TRUE
         ELSE ScanBreaks(items, i + 1, self, hasDedupe)

\* a LogEntry that is turned down only by a predicate
LogEntryInitPredicateOnly(cache, cap, reverse, data, hasDedupe) ==
    LET self == [created_at |-> FromTimestamp(data.ts), pid |-> data.pid]
    IN  IF hasDedupe /\ ScanBreaks(KeylessItems(cache, TRUE, reverse), 1, self, TRUE)
        THEN cache
        ELSE KeylessAdd(cache, cap, self)

\* LogEntry.__init__ against a sorted keyless cache of capacity cap
LogEntryInit(cache, cap, reverse, data, hasDedupe) ==
    LET self == [created_at |-> FromTimestamp(data.ts), pid |-> data.pid]
    IN  IF ScanBreaks(KeylessItems(cache, TRUE, reverse), 1, self, hasDedupe)
        THEN cache
        ELSE KeylessAdd(cache, cap, self)

\* a JoinEntry that passes no predicate: any timestamp match rejects
JoinEntryInitAnyMatch(logs, data) ==
    LogEntryInit(logs, JoinCap, JoinLogsSortReverse, data, FALSE)

\* a JoinEntry that is added without the scan
JoinEntryInitNoScan(logs, data) ==
    KeylessAdd(logs, JoinCap,
               [created_at |-> FromTimestamp(data.ts), pid |-> data.pid])

\* a JoinEntry whose insert into a full history evicts the item with the
\* oldest created_at
JoinEntryInitEvictOldest(logs, data) ==
    LET self == [created_at |-> FromTimestamp(data.ts), pid |-> data.pid]
        sorted == JoinItems(logs)
        oldest == sorted[Len(sorted)]
    IN  IF ScanBreaks(sorted, 1, self, TRUE) THEN logs
        ELSE IF Len(logs) >= JoinCap
             THEN Append(SelectSeq(logs, LAMBDA x : x # oldest), self)
        ELSE Append(logs, self)

\* a JoinEntry that is compared with the newest item of the history only
JoinEntryInitNewestOnly(logs, data) ==
    LET self == [created_at |-> FromTimestamp(data.ts), pid |-> data.pid]
        sorted == JoinItems(logs)
        newest == IF sorted = <<>> THEN <<>> ELSE <<Head(sorted)>>
    IN  IF ScanBreaks(newest, 1, self, TRUE) THEN logs
        ELSE KeylessAdd(logs, JoinCap, self)

\* JoinEntry.__init__: reconcile against join_logs by player id
JoinEntryInit(logs, data) ==
    LogEntryInit(logs, JoinCap, JoinLogsSortReverse, data, TRUE)

\* the list comprehension of get_joins: one JoinEntry per payload, in order
RECURSIVE ParseJoins(_, _)
ParseJoins(logs, resp) ==
    IF resp = <<>> THEN logs
    ELSE ParseJoins(JoinEntryInit(logs, Head(resp)), Tail(resp))

\* KillEntry.__init__ / CommandEntry.__init__ read an attribute of the
\* ServerCache; the read raises AttributeError when it does not exist
KillEntryRaises == "kill_logs" \notin ServerCacheAttrs
CommandEntryRaises == "command_logs" \notin ServerCacheAttrs

\* ModCallEntry.__init__: super().__init__(data) with no cache
ModCallEntryInit(data) == [created_at |-> FromTimestamp(data.ts), pid |-> data.pid]

\* a list comprehension that drops the repeats of an entry
RECURSIVE ParseModCallsDeduped(_)
ParseModCallsDeduped(resp) ==
    IF resp = <<>> THEN <<>>
    ELSE LET front == ParseModCallsDeduped(SubSeq(resp, 1, Len(resp) - 1))
             last == ModCallEntryInit(resp[Len(resp)])
         IN  IF \E i \in 1..Len(front) : front[i] = last THEN front
             ELSE Append(front, last)

\* the list comprehension of get_mod_calls
ParseModCalls(resp) == [i \in 1..Len(resp) |-> ModCallEntryInit(resp[i])]

(* ------------------------- errors and headers -------------------------- *)
\* what the JSON body of an unsuccessful response carries under "code"
ErrorCodes == {"None", "InvalidGlobalKey", "InvalidServerKey", "Unlisted"}

\* the exception Server._handle_error_code raises for a code
HandleErrorCode(code) ==
    IF code = "None" THEN "PRCException"
    ELSE IF code = "Unlisted" THEN "APIException"
    ELSE code

\* the default headers of the requests of a Server whose client has no
\* global key: {"Server-Key": server_key}
DefaultHeaders == {"Server-Key"}

\* the header whose value _handle_error_code marks invalid, "" when none
InvalidKeyOf(code) ==
    LET header == IF code = "InvalidGlobalKey" THEN "Authorization"
                  ELSE IF code = "InvalidServerKey" THEN "Server-Key"
                  ELSE ""
    IN  IF header \in DefaultHeaders THEN header ELSE ""

(* ----------------------------- operations ------------------------------ *)
\* what the API can answer to the request of an operation
StatusData == {<<d>> : d \in 1..2}
QueueData == {<<>>, <<1>>}
ResponsesOf(o) ==
    IF o = "get_status" THEN StatusData
    ELSE IF o = "get_queue" THEN QueueData
    ELSE Responses

\* whether building the result of o from response r raises AttributeError
ParseRaises(o, r) ==
    \/ o = "get_kills" /\ r # <<>> /\ KillEntryRaises
    \/ o = "get_commands" /\ r # <<>> /\ CommandEntryRaises

\* a get_joins that keeps the entries of the latest poll only
LogsAfterLatestOnly(o, logs, r) ==
    IF o = "get_joins" THEN ParseJoins(<<>>, r) ELSE logs

\* join_logs after the body of o has handled response r
LogsAfter(o, logs, r) == IF o = "get_joins" THEN ParseJoins(logs, r) ELSE logs

\* the value the body of o returns for response r, logs being join_logs
\* after the body has handled r
ResultOf(o, logs, r) ==
    IF o = "get_joins" THEN JoinItems(logs)
    ELSE IF o = "get_mod_calls" THEN ParseModCalls(r)
    ELSE IF o \in {"get_kills", "get_commands"} THEN <<>>
    ELSE r

\* _refresh_server, after the wrapped call returned: servers.set(id, server)
RefreshServer(o, c, t) ==
    IF o \in RefreshOps THEN CacheSet(c, ServersMaxSize, t, ServerId, ServerObj)
    ELSE c

\* the default of the ephemeral_ttl parameter of Server.__init__
EphemeralTtlDefault == 5

\* a module that is constructed with the default window
ServerModuleInitDefault(server_ttl) == EphemeralTtlDefault

\* ServerModule.__init__: self._ephemeral_ttl = server._ephemeral_ttl, a copy
\* taken when Server.__init__ constructs the module
ServerModuleInit(server_ttl) == server_ttl

\* self._ephemeral_ttl as the wrapper of o reads it: self is the ServerLogs
\* module for the log operations and the Server for the others
EphemeralTtlOf(o) == IF o \in LogOps THEN module_ttl ELSE ephemeral_ttl

\* the window check with an inclusive bound
SlotIsFreshInclusive(s, t, ttl) == s # <<>> /\ (t - s[1].at) <= ttl

\* _ephemeral: the stored result is served while its age is below the window
SlotIsFresh(s, t, ttl) == s # <<>> /\ (t - s[1].at) < ttl

\* what an event notes of the response: the payloads a result was built
\* from; the result of get_joins is the whole history and notes none
Noted(o, r) == IF o = "get_joins" THEN <<>> ELSE r

Event(kind, t, o, val, resp, err) ==
    [kind |-> kind, task |-> t, op |-> o, val |-> val, resp |-> resp, err |-> err]

NoTask == 0

\* a memo hit that returns without storing the server
HitWithoutStore(t, o) ==
    /\ pc[t] = "idle"
    /\ SlotIsFresh(slot[o], now, EphemeralTtlOf(o))
    /\ servers' = servers
    /\ ev' = Event("hit", t, o, slot[o][1].val, <<>>, "")
    /\ UNCHANGED <<now, ephemeral_ttl, module_ttl, pc, since, slot, join_logs,
                   invalid_keys, lastOk, lastFail, origOrder, recency,
                   servers_ttl, objs, pinned, passed, owner>>

\* a caller invokes o and the memo slot answers: no request is sent
Hit(t, o) ==
    /\ pc[t] = "idle"
    /\ SlotIsFresh(slot[o], now, EphemeralTtlOf(o))
    /\ servers' = RefreshServer(o, servers, now)
    /\ ev' = Event("hit", t, o, slot[o][1].val, <<>>, "")
    /\ UNCHANGED <<now, ephemeral_ttl, module_ttl, pc, since, slot, join_logs,
                   invalid_keys, lastOk, lastFail, origOrder, recency,
                   servers_ttl, objs, pinned, passed, owner>>

\* a caller invokes o, the slot is missing or stale: the request is sent and
\* the task suspends until the response arrives
Call(t, o) ==
    /\ pc[t] = "idle"
    /\ ~SlotIsFresh(slot[o], now, EphemeralTtlOf(o))
    /\ pc' = [pc EXCEPT ![t] = o]
    /\ since' = [since EXCEPT ![t] = now]
    /\ lastFail' = IF lastFail = o THEN "" ELSE lastFail
    /\ passed' = [passed EXCEPT ![t] = FALSE]
    /\ ev' = Event("call", t, o, <<>>, <<>>, "")
    /\ UNCHANGED <<now, ephemeral_ttl, module_ttl, slot, join_logs, servers,
                   invalid_keys, lastOk, origOrder, recency, servers_ttl,
                   objs, pinned, owner>>

\* a completion that leaves the slot to an invocation that completed while
\* it was awaiting
RespondUnlessPassed(t, r) ==
    LET o == pc[t]
        logs == LogsAfter(o, join_logs, r)
        res == ResultOf(o, logs, r)
    IN  /\ o # "idle"
        /\ ~ParseRaises(o, r)
        /\ join_logs' = logs
        /\ slot' = IF passed[t] THEN slot
                   ELSE [slot EXCEPT ![o] = <<[val |-> res, at |-> now]>>]
        /\ servers' = RefreshServer(o, servers, now)
        /\ lastOk' = [lastOk EXCEPT ![o] = <<[val |-> res, at |-> now]>>]
        /\ lastFail' = IF lastFail = o THEN "" ELSE lastFail
        /\ pc' = [pc EXCEPT ![t] = "idle"]
        /\ since' = [since EXCEPT ![t] = 0]
        /\ passed' = [u \in Tasks |->
                         IF u # t /\ pc[u] = o /\ o \in ServerOps THEN TRUE
                         ELSE passed[u]]
        /\ ev' = Event("fresh", t, o, res, Noted(o, r), "")
        /\ UNCHANGED <<now, ephemeral_ttl, module_ttl, invalid_keys,
                       origOrder, recency, servers_ttl, objs, pinned, owner>>

\* the response is a success and the body builds its result: the slot is
\* written, then the server is stored in the global cache
Respond(t, r) ==
    LET o == pc[t]
        logs == LogsAfter(o, join_logs, r)
        res == ResultOf(o, logs, r)
    IN  /\ o # "idle"
        /\ ~ParseRaises(o, r)
        /\ join_logs' = logs
        /\ slot' = [slot EXCEPT ![o] = <<[val |-> res, at |-> now]>>]
        /\ servers' = RefreshServer(o, servers, now)
        /\ lastOk' = [lastOk EXCEPT ![o] = <<[val |-> res, at |-> now]>>]
        /\ lastFail' = IF lastFail = o THEN "" ELSE lastFail
        /\ pc' = [pc EXCEPT ![t] = "idle"]
        /\ since' = [since EXCEPT ![t] = 0]
        /\ passed' = [u \in Tasks |->
                         IF u # t /\ pc[u] = o /\ o \in ServerOps THEN TRUE
                         ELSE passed[u]]
        /\ ev' = Event("fresh", t, o, res, Noted(o, r), "")
        /\ UNCHANGED <<now, ephemeral_ttl, module_ttl, invalid_keys,
                       origOrder, recency, servers_ttl, objs, pinned, owner>>

\* the response is a success but the first entry cannot be built
RespondRaises(t, r) ==
    LET o == pc[t]
    IN  /\ o # "idle"
        /\ ParseRaises(o, r)
        /\ lastFail' = o
        /\ pc' = [pc EXCEPT ![t] = "idle"]
        /\ since' = [since EXCEPT ![t] = 0]
        /\ ev' = Event("error", t, o, <<>>, <<>>, "AttributeError")
        /\ UNCHANGED <<now, ephemeral_ttl, module_ttl, slot, join_logs,
                       servers, invalid_keys, lastOk, origOrder, recency,
                       servers_ttl, objs, pinned, passed, owner>>

\* a failure that is stored in the slot like a result
FailCached(t, code) ==
    LET o == pc[t]
    IN  /\ o # "idle"
        /\ invalid_keys' = IF InvalidKeyOf(code) = "" THEN invalid_keys
                           ELSE invalid_keys \cup {InvalidKeyOf(code)}
        /\ slot' = [slot EXCEPT ![o] = <<[val |-> <<>>, at |-> now]>>]
        /\ lastFail' = o
        /\ pc' = [pc EXCEPT ![t] = "idle"]
        /\ since' = [since EXCEPT ![t] = 0]
        /\ ev' = Event("error", t, o, <<>>, <<>>, HandleErrorCode(code))
        /\ UNCHANGED <<now, ephemeral_ttl, module_ttl, join_logs, servers,
                       lastOk, origOrder, recency, servers_ttl, objs, pinned,
                       passed, owner>>

\* the response is not a success: _handle raises through both wrappers
Fail(t, code) ==
    LET o == pc[t]
    IN  /\ o # "idle"
        /\ invalid_keys' = IF InvalidKeyOf(code) = "" THEN invalid_keys
                           ELSE invalid_keys \cup {InvalidKeyOf(code)}
        /\ lastFail' = o
        /\ pc' = [pc EXCEPT ![t] = "idle"]
        /\ since' = [since EXCEPT ![t] = 0]
        /\ ev' = Event("error", t, o, <<>>, <<>>, HandleErrorCode(code))
        /\ UNCHANGED <<now, ephemeral_ttl, module_ttl, slot, join_logs,
                       servers, lastOk, origOrder, recency, servers_ttl, objs,
                       pinned, passed, owner>>

\* the task is cancelled while it awaits the response
Cancel(t) ==
    LET o == pc[t]
    IN  /\ o # "idle"
        /\ lastFail' = o
        /\ pc' = [pc EXCEPT ![t] = "idle"]
        /\ since' = [since EXCEPT ![t] = 0]
        /\ ev' = Event("cancelled", t, o, <<>>, <<>>, "CancelledError")
        /\ UNCHANGED <<now, ephemeral_ttl, module_ttl, slot, join_logs,
                       servers, invalid_keys, lastOk, origOrder, recency,
                       servers_ttl, objs, pinned, passed, owner>>

\* the items of a history that a step removed from it
Dropped(before, after) ==
    SelectSeq(before, LAMBDA x : \A i \in 1..Len(after) : after[i] # x)

\* JoinEntry(server, data) is constructed
NewJoinEntry(data) ==
    /\ join_logs' = JoinEntryInit(join_logs, data)
    /\ ev' = Event("join_entry", NoTask, "", <<data>>,
                   Dropped(join_logs, join_logs'), "")
    /\ UNCHANGED <<now, ephemeral_ttl, module_ttl, pc, since, slot, servers,
                   invalid_keys, lastOk, lastFail, origOrder, recency,
                   servers_ttl, objs, pinned, passed, owner>>

\* LogEntry(data, cache) is constructed with the join_logs sequence as its
\* cache and no dedupe predicate
NewLogEntry(data) ==
    /\ join_logs' = LogEntryInit(join_logs, JoinCap, JoinLogsSortReverse, data, FALSE)
    /\ ev' = Event("log_entry", NoTask, "", <<data>>,
                   Dropped(join_logs, join_logs'), "")
    /\ UNCHANGED <<now, ephemeral_ttl, module_ttl, pc, since, slot, servers,
                   invalid_keys, lastOk, lastFail, origOrder, recency,
                   servers_ttl, objs, pinned, passed, owner>>

\* the body of get_joins handles the poll result r: one JoinEntry per
\* payload, then items() is returned. The event notes items() before the
\* pass and after it, and, when the step before handled the same list, the
\* items() that pass started from
Reconcile(r) ==
    /\ join_logs' = ParseJoins(join_logs, r)
    /\ ev' = Event("poll", NoTask, "get_joins",
                   <<JoinItems(join_logs), JoinItems(join_logs'),
                     IF ev.kind = "poll" /\ ev.resp = r THEN <<ev.val[1]>>
                     ELSE <<>> >>,
                   r, "")
    /\ UNCHANGED <<now, ephemeral_ttl, module_ttl, pc, since, slot, servers,
                   invalid_keys, lastOk, lastFail, origOrder, recency,
                   servers_ttl, objs, pinned, passed, owner>>

\* Server.__init__(..., cache: ServerCache = ServerCache()): the default is
\* evaluated once, when the function is defined, and PRC.get_server passes
\* no cache; every Server constructed without a cache argument holds that
\* one ServerCache object
ServerCacheOf(s) == "default"

\* join_logs of a ServerCache object
JoinLogsOf(c) == IF c = "default" THEN join_logs ELSE <<>>

\* JoinEntry(server, data) is constructed for the server with id s
NewJoinEntryFor(s, data) ==
    /\ join_logs' = JoinEntryInit(JoinLogsOf(ServerCacheOf(s)), data)
    /\ owner' = IF join_logs' = join_logs THEN owner
                ELSE Append(SubSeq(owner, Len(owner) - Len(join_logs') + 2,
                                   Len(owner)), s)
    /\ ev' = Event("join_entry_for", NoTask, "", <<data, s>>,
                   Dropped(join_logs, join_logs'), "")
    /\ UNCHANGED <<now, ephemeral_ttl, module_ttl, pc, since, slot, servers,
                   invalid_keys, lastOk, lastFail, origOrder, recency,
                   servers_ttl, objs, pinned, passed>>

\* servers.set(key, value) on the global cache
ServersSet(k, v) ==
    /\ servers' = CacheSet(servers, ServersMaxSize, now, k, v)
    /\ recency' = Append(SelectSeq(recency, LAMBDA q : q[1] # k), <<k, v>>)
    /\ origOrder' =
          IF CacheHas(servers, k) THEN origOrder
          ELSE IF Len(servers) >= ServersMaxSize
               THEN Append(SelectSeq(origOrder, LAMBDA q : q # Head(servers).key), k)
          ELSE Append(origOrder, k)
    /\ ev' = Event("set", NoTask, "", <<k, v>>, <<>>, "")
    /\ UNCHANGED <<now, ephemeral_ttl, module_ttl, pc, since, slot, join_logs,
                   invalid_keys, lastOk, lastFail, servers_ttl, objs, pinned,
                   passed, owner>>

\* pinned after a step of the servers cache: key k is pinned to object h
\* (the others keep their pin), and a key whose entry the step evicted
\* loses its pin
PinnedAfter(k, h, before, after) ==
    [q \in ServerKeys |->
        IF q = k THEN h
        ELSE IF CacheHas(before, q) /\ ~CacheHas(after, q) THEN 0
        ELSE pinned[q]]

\* a get_server that returns whatever object is cached for the key
GetServerAnyFlag(k, f) ==
    LET existing == CacheGet(servers, servers_ttl, now, k)
        reuse == existing # <<>>
        h == IF reuse THEN existing[1] ELSE Len(objs) + 1
    IN  /\ reuse \/ Len(objs) < MaxObjs
        /\ objs' = IF reuse THEN objs ELSE Append(objs, [key |-> k, flag |-> f])
        /\ servers' = IF reuse THEN servers
                      ELSE CacheSet(servers, ServersMaxSize, now, k, h)
        /\ pinned' = PinnedAfter(k, h, servers, servers')
        /\ ev' = Event("get_server", NoTask, "", <<k, f, h>>, <<>>, "")
        /\ UNCHANGED <<now, ephemeral_ttl, module_ttl, pc, since, slot,
                       join_logs, invalid_keys, lastOk, lastFail, origOrder,
                       recency, servers_ttl, passed, owner>>

\* PRC.get_server(server_key, ignore_global_key) with a valid key whose id
\* is k: the cached Server is returned when its flag is f, else a new
\* Server is constructed, stored and returned
GetServer(k, f) ==
    LET existing == CacheGet(servers, servers_ttl, now, k)
        reuse == existing # <<>> /\ objs[existing[1]].flag = f
        h == IF reuse THEN existing[1] ELSE Len(objs) + 1
    IN  /\ reuse \/ Len(objs) < MaxObjs
        /\ objs' = IF reuse THEN objs ELSE Append(objs, [key |-> k, flag |-> f])
        /\ servers' = IF reuse THEN servers
                      ELSE CacheSet(servers, ServersMaxSize, now, k, h)
        /\ pinned' = PinnedAfter(k, h, servers, servers')
        /\ ev' = Event("get_server", NoTask, "", <<k, f, h>>, <<>>, "")
        /\ UNCHANGED <<now, ephemeral_ttl, module_ttl, pc, since, slot,
                       join_logs, invalid_keys, lastOk, lastFail, origOrder,
                       recency, servers_ttl, passed, owner>>

\* PRC.get_server without a key and without a default key, or with a key
\* of the wrong format: ValueError before the cache is read
GetServerRaises ==
    /\ ev' = Event("get_server_error", NoTask, "", <<>>, <<>>, "ValueError")
    /\ UNCHANGED <<now, ephemeral_ttl, module_ttl, pc, since, slot, join_logs,
                   servers, invalid_keys, lastOk, lastFail, origOrder,
                   recency, servers_ttl, objs, pinned, passed, owner>>

\* a refresh-decorated operation called on the Server object h, or on one
\* of its modules, returns: _refresh_server stores h under its id. What
\* the call does before that touches the handle alone
HandleReturns(h) ==
    /\ h \in 1..Len(objs)
    /\ servers' = CacheSet(servers, ServersMaxSize, now, objs[h].key, h)
    /\ pinned' = PinnedAfter(objs[h].key, pinned[objs[h].key], servers, servers')
    /\ ev' = Event("returned", NoTask, "", <<h>>, <<>>, "")
    /\ UNCHANGED <<now, ephemeral_ttl, module_ttl, pc, since, slot, join_logs,
                   invalid_keys, lastOk, lastFail, origOrder, recency,
                   servers_ttl, objs, passed, owner>>

\* an operation of server.commands returns or raises: neither decorator
\* wraps _raw, run and the commands built on them
CommandDone ==
    /\ ev' = Event("command", NoTask, "run", <<>>, <<>>, "")
    /\ UNCHANGED <<now, ephemeral_ttl, module_ttl, pc, since, slot, join_logs,
                   servers, invalid_keys, lastOk, lastFail, origOrder,
                   recency, servers_ttl, objs, pinned, passed, owner>>

\* servers.get(key) on the global cache
ServersGet(k) ==
    /\ ev' = Event("get", NoTask, "",
                   <<k>> \o CacheGet(servers, servers_ttl, now, k), <<>>, "")
    /\ UNCHANGED <<now, ephemeral_ttl, module_ttl, pc, since, slot, join_logs,
                   servers, invalid_keys, lastOk, lastFail, origOrder,
                   recency, servers_ttl, objs, pinned, passed, owner>>

\* the event-loop clock advances
Tick ==
    /\ now < MaxTime
    /\ now' = now + 1
    /\ ev' = Event("tick", NoTask, "", <<>>, <<>>, "")
    /\ UNCHANGED <<ephemeral_ttl, module_ttl, pc, since, slot, join_logs,
                   servers, invalid_keys, lastOk, lastFail, origOrder,
                   recency, servers_ttl, objs, pinned, passed, owner>>

(* --------------------------- specifications ---------------------------- *)
InitBase(ttls, logs, cacheTtls) ==
    /\ now = 0
    /\ ephemeral_ttl \in ttls
    /\ module_ttl = ServerModuleInit(ephemeral_ttl)
    /\ pc = [t \in Tasks |-> "idle"]
    /\ since = [t \in Tasks |-> 0]
    /\ slot = [o \in Ops |-> <<>>]
    /\ join_logs \in logs
    /\ servers = <<>>
    /\ invalid_keys = {}
    /\ ev = Event("init", NoTask, "", <<>>, <<>>, "")
    /\ lastOk = [o \in Ops |-> <<>>]
    /\ lastFail = ""
    /\ origOrder = <<>>
    /\ recency = <<>>
    /\ servers_ttl \in cacheTtls
    /\ objs = <<>>
    /\ pinned = [k \in ServerKeys |-> 0]
    /\ passed = [t \in Tasks |-> FALSE]
    /\ owner = <<>>

\* the default configuration of the global cache
InitWith(ttls, logs) == InitBase(ttls, logs, {ServersTtl})

\* the steps of the callers of the operations in ops
CallerStep(tasks, ops) ==
    \/ \E t \in tasks, o \in ops : Call(t, o)
    \/ \E t \in tasks : \E r \in ResponsesOf(pc[t]) : Respond(t, r)
    \/ \E t \in tasks, code \in ErrorCodes : Fail(t, code)
    \/ \E t \in tasks : Cancel(t)

\* the memoizer: a server polled by concurrent callers as time passes
MemoOps == {"get_status"}

Init == InitWith(0..MaxTtl, {<<>>})

Next ==
    \/ \E t \in Tasks, o \in MemoOps : Hit(t, o)
    \/ CallerStep(Tasks, MemoOps)
    \/ Tick

Spec == Init /\ [][Next]_vars

\* the join history: overlapping polls of the join log by concurrent callers
\* of a server whose window is 0, so that every call polls
JoinOps == {"get_joins"}

InitJoins == InitWith({0}, {<<>>})

NextJoins == CallerStep(Tasks, JoinOps)

SpecJoins == InitJoins /\ [][NextJoins]_vars

\* the reconciliation alone: join entries constructed one at a time
InitDedup == InitWith({0}, {<<>>})

NextDedup == \E data \in Payloads : NewJoinEntry(data)

SpecDedup == InitDedup /\ [][NextDedup]_vars

\* the other logs: kill, command and mod-call polls by one caller of a
\* server whose window is 0 and whose join history is empty or holds the
\* one entry of an earlier poll
OtherLogOps == {"get_kills", "get_commands", "get_mod_calls"}

InitOther ==
    InitWith({0}, {<<>>, ParseJoins(<<>>, <<RemoteEvent(1)>>)})

NextOther ==
    \/ CallerStep({1}, OtherLogOps)
    \/ \E r \in ResponsesOf(pc[1]) : RespondRaises(1, r)

SpecOther == InitOther /\ [][NextOther]_vars

\* the global cache alone: any sequence of set and get calls
CacheKeys == 1..NKeys
CacheVals == 1..NVals

InitCache == InitWith({0}, {<<>>})

NextCache ==
    \/ \E k \in CacheKeys, v \in CacheVals : ServersSet(k, v)
    \/ \E k \in CacheKeys : ServersGet(k)

SpecCache == InitCache /\ [][NextCache]_vars

\* the global cache with a TTL: sets and gets of the keys it has room for
\* as time passes
TtlKeys == 1..ServersMaxSize

InitTtl == InitBase({0}, {<<>>}, 0..MaxTtl)

NextTtl ==
    \/ \E k \in TtlKeys, v \in CacheVals : ServersSet(k, v)
    \/ \E k \in TtlKeys : ServersGet(k)
    \/ Tick

SpecTtl == InitTtl /\ [][NextTtl]_vars

\* two servers with different ids, each constructed without a cache
\* argument, parse their join logs
ScopeServers == {ServerId, ServerId + 1}

InitScopes == InitWith({0}, {<<>>})

NextScopes == \E s \in ScopeServers, data \in Payloads : NewJoinEntryFor(s, data)

SpecScopes == InitScopes /\ [][NextScopes]_vars

\* the client: get_server calls for more servers than the cache holds,
\* interleaved with the returns of operations called on the handles it
\* handed out
ClientStep(keys) ==
    \/ \E k \in keys, f \in BOOLEAN : GetServer(k, f)
    \/ GetServerRaises
    \/ \E h \in 1..MaxObjs : HandleReturns(h)

InitClient == InitWith({0}, {<<>>})

NextClient == ClientStep(ServerKeys)

SpecClient == InitClient /\ [][NextClient]_vars

\* the client of a servers cache with a TTL, as time passes
InitClientTtl == InitBase({0}, {<<>>}, 0..MaxTtl)

NextClientTtl ==
    \/ ClientStep(TtlKeys)
    \/ Tick

SpecClientTtl == InitClientTtl /\ [][NextClientTtl]_vars

\* the reconciliation without a predicate: plain log entries constructed
\* one at a time against one sequence
InitPlain == InitWith({0}, {<<>>})

NextPlain == \E data \in Payloads : NewLogEntry(data)

SpecPlain == InitPlain /\ [][NextPlain]_vars

\* the join history over time: one caller polls the join log of a server
\* with a window of 1, so that calls are answered from the slot or polled
InitHistory == InitWith({1}, {<<>>})

NextHistory ==
    \/ Hit(1, "get_joins")
    \/ CallerStep({1}, JoinOps)
    \/ Tick

SpecHistory == InitHistory /\ [][NextHistory]_vars

\* the refresh: one caller of a server with a window of 1 calls a Server
\* operation, a module operation, get_queue and commands, while the client
\* may store another Server object under the id of the server
RefreshSpecOps == {"get_status", "get_queue", "get_kills"}

InitRefresh == InitWith({1}, {<<>>})

NextRefresh ==
    \/ \E o \in RefreshSpecOps : Hit(1, o)
    \/ CallerStep({1}, RefreshSpecOps)
    \/ \E r \in ResponsesOf(pc[1]) : RespondRaises(1, r)
    \/ CommandDone
    \/ ServersSet(ServerId, ServerObj + 1)
    \/ Tick

SpecRefresh == InitRefresh /\ [][NextRefresh]_vars

\* the same poll handled again: the join log answers with any window of the
\* remote log, among them windows longer than the capacity of join_logs
PollLists ==
    UNION {{Window(a, n) : a \in 1..(LogLen - n + 1)} : n \in 0..(JoinCap + 2)}

InitPolls == InitWith({0}, {<<>>})

NextPolls == \E r \in PollLists : Reconcile(r)

SpecPolls == InitPolls /\ [][NextPolls]_vars

\* the windows: one caller of an operation of the Server and of an
\* operation of server.logs, for every window from 0
WindowOps == {"get_status", "get_mod_calls"}

InitWindow == InitWith(0..MaxTtl, {<<>>})

NextWindow ==
    \/ \E o \in WindowOps : Hit(1, o)
    \/ CallerStep({1}, WindowOps)
    \/ Tick

SpecWindow == InitWindow /\ [][NextWindow]_vars

(* ------------------------------- claims -------------------------------- *)
Abs(x) == IF x < 0 THEN 0 - x ELSE x

\* C1: two invocations of a memoized operation made within ephemeral_ttl
\* seconds of each other invoke the underlying operation exactly once, for
\* every schedule: no two callers await the same operation with requests
\* sent less than ephemeral_ttl apart, and a stored result is served only
\* while it is younger than ephemeral_ttl
C1_OncePerWindow ==
    /\ \A t, u \in Tasks :
          (t # u /\ pc[t] # "idle" /\ pc[t] = pc[u])
              => Abs(since[t] - since[u]) >= ephemeral_ttl
    /\ ev.kind = "hit" => now - slot[ev.op][1].at < ephemeral_ttl

\* C2: after a failed fetch the next invocation of the operation fetches
\* again: no invocation is answered from the slot while the latest failure
\* of the operation has not been followed by a new fetch
C2_FailureRetried == ev.kind = "hit" => lastFail # ev.op

\* C4: a memo hit returns the result of the most recent successful
\* completion of the operation, and that completion is strictly less than
\* ephemeral_ttl seconds old
C4_HitServesLastSuccess ==
    ev.kind = "hit" =>
        /\ lastOk[ev.op] # <<>>
        /\ ev.val = lastOk[ev.op][1].val
        /\ now - lastOk[ev.op][1].at < ephemeral_ttl

\* a hit that serves a result written one clock step earlier, the oldest a
\* window of 2 admits, while another caller still awaits the same operation
C4_Witness ==
    /\ ev.kind = "hit"
    /\ ephemeral_ttl = 2
    /\ now - lastOk[ev.op][1].at = 1
    /\ \E u \in Tasks : pc[u] = ev.op

\* C3: a memoized, refresh-decorated operation that ends in an API failure
\* or is cancelled while it awaits the response raises that error to its
\* caller and leaves the memo slots, join_logs and the global servers cache
\* as they were
C3_FailureLeavesState ==
    [][ev'.kind \in {"error", "cancelled"} =>
          /\ slot' = slot
          /\ join_logs' = join_logs
          /\ servers' = servers
          /\ \A t \in Tasks, code \in ErrorCodes :
                Fail(t, code) => ev'.task = t /\ ev'.err = HandleErrorCode(code)
          /\ \A t \in Tasks :
                Cancel(t) => ev'.task = t /\ ev'.err = "CancelledError"]_vars

\* a get_joins that failed on a server with a written slot, a join history
\* and an entry in the global cache
C3_Witness ==
    /\ ev.kind \in {"error", "cancelled"}
    /\ ev.op = "get_joins"
    /\ slot["get_joins"] # <<>>
    /\ join_logs # <<>>
    /\ servers # <<>>

\* the join entry parsed from a payload
JoinEntryOf(data) == [created_at |-> FromTimestamp(data.ts), pid |-> data.pid]

\* some item of the sequence has the created_at and the player id of e
HasSameEvent(logs, e) ==
    \E i \in 1..Len(logs) :
        logs[i].created_at = e.created_at /\ logs[i].pid = e.pid

\* C5: a parsed JoinEntry is added to join_logs if and only if no item of
\* the sequence has both its created_at and its player id; a timestamp
\* match with another player id does not block the insert
C5_JoinDedupRule ==
    [][ev'.kind = "join_entry" =>
          LET e == JoinEntryOf(ev'.val[1])
          IN  IF HasSameEvent(join_logs, e)
              THEN join_logs' = join_logs
              ELSE /\ join_logs' # join_logs
                   /\ join_logs'[Len(join_logs')] = e]_vars

\* an entry was just added although the history already held a join of the
\* same second by another player, and a repeat of an entry was turned down
C5_Witness ==
    /\ ev.kind = "join_entry"
    /\ Len(join_logs) >= 2
    /\ \E i, j \in 1..Len(join_logs) :
          /\ i # j
          /\ join_logs[i].created_at = join_logs[j].created_at
          /\ join_logs[i].pid # join_logs[j].pid
    /\ join_logs[Len(join_logs)] # JoinEntryOf(ev.val[1])
    /\ HasSameEvent(join_logs, JoinEntryOf(ev.val[1]))

\* C6: join_logs never holds two items with the same created_at and the
\* same player id
C6_NoDuplicateJoin ==
    \A i, j \in 1..Len(join_logs) :
        (i # j /\ join_logs[i].created_at = join_logs[j].created_at)
            => join_logs[i].pid # join_logs[j].pid

\* a poll completed on a full history while another get_joins is in flight
C6_Witness ==
    /\ ev.kind = "fresh"
    /\ ev.op = "get_joins"
    /\ Len(join_logs) = JoinCap
    /\ \E u \in Tasks : u # ev.task /\ pc[u] = "get_joins"

NonIncreasing(items) ==
    \A i, j \in 1..Len(items) : i < j => items[i].created_at >= items[j].created_at

CreatedAts(items) == [i \in 1..Len(items) |-> items[i].created_at]

\* C9: items() of join_logs, and so the result of a fresh get_joins, is
\* ordered non-increasing by created_at whatever the insertion order;
\* entries inserted with timestamps 100, 300, 200 read as 300, 200, 100
C9_JoinItemsDescending ==
    /\ NonIncreasing(JoinItems(join_logs))
    /\ (ev.kind = "fresh" /\ ev.op = "get_joins") =>
          ev.val = JoinItems(join_logs) /\ NonIncreasing(ev.val)
    /\ CreatedAts(join_logs) =
           <<FromTimestamp(100), FromTimestamp(300), FromTimestamp(200)>>
       => CreatedAts(JoinItems(join_logs)) =
           <<FromTimestamp(300), FromTimestamp(200), FromTimestamp(100)>>

\* the history was filled in the order 100, 300, 200 and a fresh get_joins
\* returned it
C9_Witness ==
    /\ ev.kind = "fresh"
    /\ ev.op = "get_joins"
    /\ CreatedAts(join_logs) =
           <<FromTimestamp(100), FromTimestamp(300), FromTimestamp(200)>>
    /\ CreatedAts(ev.val) =
           <<FromTimestamp(300), FromTimestamp(200), FromTimestamp(100)>>

\* C7: parsing a kill or command entry for a server with the default
\* ServerCache reconciles it against the kill or command history and
\* completes normally
C7_KillCommandParseCompletes ==
    (ev.op \in {"get_kills", "get_commands"} /\ ev.kind = "error")
        => ev.err # "AttributeError"

\* C8: every mod-call entry of a poll is in the result of get_mod_calls, in
\* order and with repeats, and the poll changes no cache of the server
C8_ModCallsKept ==
    [][(ev'.kind = "fresh" /\ ev'.op = "get_mod_calls") =>
          /\ join_logs' = join_logs
          /\ Len(ev'.val) = Len(ev'.resp)
          /\ \A i \in 1..Len(ev'.resp) :
                /\ ev'.val[i].created_at = FromTimestamp(ev'.resp[i].ts)
                /\ ev'.val[i].pid = ev'.resp[i].pid]_vars

\* a get_mod_calls returned two entries of the same second and caller, on a
\* server that has a join history
C8_Witness ==
    /\ ev.kind = "fresh"
    /\ ev.op = "get_mod_calls"
    /\ Len(ev.resp) = 2
    /\ ev.resp[1] = ev.resp[2]
    /\ Len(ev.val) = 2
    /\ join_logs # <<>>

KeyValues(c) == [i \in 1..Len(c) |-> <<c[i].key, c[i].value>>]

\* the last n elements of a sequence
LastOf(q, n) == IF Len(q) <= n THEN q ELSE SubSeq(q, Len(q) - n + 1, Len(q))

StoredUnder(c, k) == SelectSeq(c, LAMBDA e : e.key = k)

\* C11: with a TTL above 0, get of a key whose entry was inserted TTL or
\* more seconds ago returns absent although the entry is still stored and
\* nothing was written in between; with a TTL of 0 the entry of a stored
\* key is returned whatever its age
C11_ExpiredIsAbsent ==
    ev.kind = "get" =>
        LET k == ev.val[1]
            got == Tail(ev.val)
            held == StoredUnder(servers, k)
        IN  /\ (servers_ttl > 0 /\ held # <<>>
                    /\ now - held[1].inserted_at >= servers_ttl) => got = <<>>
            /\ (servers_ttl = 0 /\ held # <<>>) => got = <<held[1].value>>
            /\ held = <<>> => got = <<>>

\* a get answered absent for an entry that is stored and exactly as old as
\* the TTL
C11_Witness ==
    /\ ev.kind = "get"
    /\ servers_ttl > 0
    /\ StoredUnder(servers, ev.val[1]) # <<>>
    /\ now - StoredUnder(servers, ev.val[1])[1].inserted_at = servers_ttl
    /\ Tail(ev.val) = <<>>

\* C16: set of a key that is present replaces its value, makes its entry
\* the newest in insertion order with the current time as its timestamp,
\* leaves the other entries as they were and keeps the number of entries
C16_ResetRefreshes ==
    [][(ev'.kind = "set" /\ CacheHas(servers, ev'.val[1])) =>
          LET k == ev'.val[1]
          IN  /\ Len(servers') = Len(servers)
              /\ servers'[Len(servers')] =
                     [key |-> k, value |-> ev'.val[2], inserted_at |-> now]
              /\ CacheWithout(servers', k) = CacheWithout(servers, k)]_vars

\* the key inserted first was set again later: its entry now stands behind
\* the entry of the other key and carries the later timestamp
C16_Witness ==
    /\ ev.kind = "set"
    /\ Len(servers) = 2
    /\ origOrder[1] = ev.val[1]
    /\ servers[2].key = ev.val[1]
    /\ servers[2].value = ev.val[2]
    /\ servers[2].inserted_at = now
    /\ servers[1].inserted_at < now

\* C12: join_logs never holds more than its capacity; an add appends the
\* item, and on a full sequence it evicts exactly the item inserted
\* earliest, whatever its created_at
C12_EvictsEarliestInserted ==
    /\ Len(join_logs) <= JoinCap
    /\ [][ev'.kind = "join_entry" =>
             /\ Len(join_logs') <= JoinCap
             /\ join_logs' # join_logs =>
                    /\ join_logs'[Len(join_logs')] = JoinEntryOf(ev'.val[1])
                    /\ IF Len(join_logs) >= JoinCap
                       THEN /\ ev'.resp = <<Head(join_logs)>>
                            /\ join_logs' = Append(Tail(join_logs),
                                                   JoinEntryOf(ev'.val[1]))
                       ELSE /\ ev'.resp = <<>>
                            /\ join_logs' = Append(join_logs,
                                                   JoinEntryOf(ev'.val[1]))]_vars

\* an add evicted an item although the history keeps both an older and a
\* newer one by created_at
C12_Witness ==
    /\ ev.kind = "join_entry"
    /\ Len(ev.resp) = 1
    /\ Len(join_logs) = JoinCap
    /\ \E i, j \in 1..(Len(join_logs) - 1) :
          /\ join_logs[i].created_at < ev.resp[1].created_at
          /\ join_logs[j].created_at > ev.resp[1].created_at

\* C13: a join entry parsed for one server leaves the join history of
\* every server with another id as it was, and an entry is turned down as
\* a duplicate only because of an item parsed for the same server
C13_ScopesIndependent ==
    [][ev'.kind = "join_entry_for" =>
          LET a == ev'.val[2]
              e == JoinEntryOf(ev'.val[1])
          IN  /\ \A b \in ScopeServers \ {a} :
                    JoinLogsOf(ServerCacheOf(b))' = JoinLogsOf(ServerCacheOf(b))
              /\ join_logs' = join_logs =>
                    \E i \in 1..Len(join_logs) :
                        /\ join_logs[i] = e
                        /\ owner[i] = a]_vars

\* C14: once get_server(key, f) returned S, every later get_server(key, f)
\* returns S, as long as no get_server for the key used another flag in
\* between and the entry was not evicted, whatever operations returned on
\* whatever handles in between
C14_SameHandleAgain ==
    [][ev'.kind = "get_server" =>
          LET k == ev'.val[1]
              f == ev'.val[2]
          IN  (pinned[k] # 0 /\ objs[pinned[k]].flag = f)
                  => ev'.val[3] = pinned[k]]_vars

\* C15: get_server(key, f) returns a Server of that key whose flag is f,
\* and right after the call the servers cache maps the id to the returned
\* object; the cached object is returned unchanged when it is live and its
\* flag is f, and only otherwise a new object takes its place
C15_GetServerPost ==
    [][ev'.kind = "get_server" =>
          LET k == ev'.val[1]
              f == ev'.val[2]
              h == ev'.val[3]
              old == CacheGet(servers, servers_ttl, now, k)
          IN  /\ objs'[h] = [key |-> k, flag |-> f]
              /\ CacheGet(servers', servers_ttl, now', k) = <<h>>
              /\ IF old # <<>> /\ objs[old[1]].flag = f
                 THEN h = old[1] /\ servers' = servers /\ objs' = objs
                 ELSE h = Len(objs) + 1 /\ Len(objs') = h]_vars

\* the one Server constructed before had the key and the flag asked for,
\* but its entry had expired: get_server stored a new Server in its place
C15_Witness ==
    /\ ev.kind = "get_server"
    /\ ev.val[3] = Len(objs)
    /\ servers_ttl > 0
    /\ now >= servers_ttl
    /\ Len(objs) = 2
    /\ objs[1] = objs[2]
    /\ StoredUnder(servers, ev.val[1]) =
           <<[key |-> ev.val[1], value |-> ev.val[3], inserted_at |-> now]>>

\* C17: a log entry reconciled with no predicate is turned down when some
\* item of the sequence has exactly its created_at, whatever else differs,
\* and is added when none has
C17_TimestampAloneRejects ==
    [][ev'.kind = "log_entry" =>
          LET e == JoinEntryOf(ev'.val[1])
          IN  IF \E i \in 1..Len(join_logs) : join_logs[i].created_at = e.created_at
              THEN join_logs' = join_logs
              ELSE /\ join_logs' # join_logs
                   /\ join_logs'[Len(join_logs')] = e]_vars

\* an entry was turned down although the one item of its second belongs to
\* another player
C17_Witness ==
    /\ ev.kind = "log_entry"
    /\ \E i \in 1..Len(join_logs) :
          /\ join_logs[i].created_at = FromTimestamp(ev.val[1].ts)
          /\ join_logs[i].pid # ev.val[1].pid
    /\ \A i \in 1..Len(join_logs) : join_logs[i] # JoinEntryOf(ev.val[1])

\* sequence p is the beginning of sequence q
IsPrefix(p, q) == Len(p) <= Len(q) /\ SubSeq(q, 1, Len(p)) = p

\* the items of sequence q are all in sequence p
AllIn(q, p) == \A i \in 1..Len(q) : \E j \in 1..Len(p) : p[j] = q[i]

\* C18: join_logs changes by additions alone, and items leave it, earliest
\* inserted first, only when an addition overflows the capacity; a fresh
\* get_joins returns every item the history holds, and a memo hit, a
\* failure or a rejected duplicate leaves the history as it is
C18_HistoryRetained ==
    [][/\ \E n \in 0..Len(join_logs) :
             /\ IsPrefix(SubSeq(join_logs, n + 1, Len(join_logs)), join_logs')
             /\ n > 0 => Len(join_logs') = JoinCap
       /\ ev'.kind # "fresh" => join_logs' = join_logs
       /\ (ev'.kind = "fresh" /\ ev'.op = "get_joins") =>
             AllIn(join_logs', ev'.val) /\ AllIn(ev'.val, join_logs')]_vars

\* a fresh get_joins returned more entries than one poll carries
C18_Witness ==
    /\ ev.kind = "fresh"
    /\ ev.op = "get_joins"
    /\ Len(ev.val) > MaxPoll
    /\ now > 0

\* C19: every successful completion writes the result built from its own
\* response and the time of the completion into the slot, over whatever an
\* overlapping invocation stored there, so the slot holds the result of the
\* invocation that completed last; the timestamp of the slot never goes
\* back
C19_LastWriterWins ==
    [][ev'.kind = "fresh" =>
          LET o == ev'.op
          IN  /\ pc[ev'.task] = o
              /\ ev'.val = ResultOf(o, join_logs', ev'.resp)
              /\ slot'[o] = <<[val |-> ev'.val, at |-> now']>>
              /\ slot[o] # <<>> => slot[o][1].at <= slot'[o][1].at]_vars

\* an invocation completed after another invocation of the operation had
\* completed while it was awaiting: the slot holds its result
C19_Witness ==
    /\ ev.kind = "fresh"
    /\ passed[ev.task]
    /\ slot[ev.op] = <<[val |-> ev.val, at |-> now]>>
    /\ now > 0

\* C20: right after a refresh-decorated operation of the server or of its
\* modules returned a result, from the slot or from a response, the servers
\* cache maps the id of the server to the server; get_queue and the
\* commands leave the servers cache as it is
C20_ReturnStoresServer ==
    [][/\ (ev'.kind \in {"hit", "fresh"}
             /\ ev'.op \in {"get_status", "get_joins", "get_kills",
                            "get_commands", "get_mod_calls"})
            => CacheGet(servers', servers_ttl, now', ServerId) = <<ServerObj>>
       /\ ev'.op \in {"get_queue", "run"} => servers' = servers]_vars

\* a call answered from the slot put the server back under its id after
\* another object had been stored there
C20_Witness ==
    /\ ev.kind = "hit"
    /\ ev.op \in {"get_status", "get_kills"}
    /\ recency # <<>>
    /\ recency[Len(recency)][2] # ServerObj
    /\ CacheGet(servers, servers_ttl, now, ServerId) = <<ServerObj>>

\* every entry of the list r that is among the items before is among the
\* items after
HeldKept(before, r, after) ==
    \A i \in 1..Len(r) :
        LET e == JoinEntryOf(r[i])
        IN  (\E j \in 1..Len(before) : before[j] = e)
                => \E j \in 1..Len(after) : after[j] = e

C22_ZeroWindowNeverServes ==
    /\ module_ttl = ephemeral_ttl
    /\ ephemeral_ttl = 0 =>
          /\ ev.kind # "hit"
          /\ \A o \in WindowOps : ~SlotIsFresh(slot[o], now, EphemeralTtlOf(o))
    /\ [][/\ ephemeral_ttl' = ephemeral_ttl
          /\ module_ttl' = module_ttl
          /\ ev'.kind = "hit" =>
                /\ ephemeral_ttl > 0
                /\ slot[ev'.op] # <<>>
                /\ now - slot[ev'.op][1].at < ephemeral_ttl
                /\ ev'.val = slot[ev'.op][1].val]_vars

\* with ephemeral_ttl = 0, get_mod_calls of server.logs was invoked at the
\* instant its slot was written and the request was sent all the same
C22_Witness ==
    /\ ephemeral_ttl = 0
    /\ ev.kind = "call"
    /\ ev.op = "get_mod_calls"
    /\ slot["get_mod_calls"] # <<>>
    /\ slot["get_mod_calls"][1].at = now
    /\ slot["get_status"] # <<>>
    /\ pc[ev.task] = "get_mod_calls"
====
